---- MODULE Spec2Model ----
(***************************************************************************)
(* The event pipeline of tracee (src/tracee/pipeline.go): four stage       *)
(* goroutines (decodeRawEvent, processRawEvent, prepareEventForPrint,      *)
(* printEvent) connected by channels, the error fan-in of MergeErrors and  *)
(* the drain loop of WaitForPipeline.                                      *)
(*                                                                         *)
(* Go channel semantics used throughout:                                   *)
(*   - an unbuffered channel hands a value over in one joint step of the   *)
(*     sender and the receiver;                                            *)
(*   - a buffered channel is a FIFO of bounded length;                     *)
(*   - a receive on a closed channel still delivers what is buffered, and  *)
(*     `range` ends only when the channel is closed and empty;             *)
(*   - a send on a closed channel, or a second close, panics;              *)
(*   - a select with several ready cases takes any one of them.            *)
(***************************************************************************)
EXTENDS Integers, Sequences, FiniteSets, TLC

(* ------------------------------------------------------------------ *)
(* Bounds of the model and constants of the program                    *)
(* ------------------------------------------------------------------ *)

\* how many raw buffers the instrumentation backend feeds in one run
MaxBuffers == 2

\* the same, for the runs whose buffers all decode
MaxFiltered == 3

\* errc := make(chan error, 1) in every stage
ErrcCap == 1

\* out := make(chan Event, 1000) in prepareEventForPrint
PrintChanCap == 1000

\* maxStackDepth := 20 in getStackTrace
maxStackDepth == 20

None == [none |-> TRUE]

Stages == {"decode", "process", "prepare", "print"}

\* errcList, in the order runEventPipeline appends the error channels
errcList == <<"decode", "process", "prepare", "print">>

(* ------------------------------------------------------------------ *)
(* Raw buffers: what the backend may put on t.eventsChannel            *)
(* ------------------------------------------------------------------ *)

\* One tagged argument on the wire; ok = FALSE when readArgFromBuff fails on it.
WireArg(tag, val, ok) == [tag |-> tag, val |-> [raw |-> val, shown |-> FALSE], ok |-> ok]

\* A raw buffer.  hdrOk = FALSE when binary.Read of the context fails.
\* policy fixes the answers of the external hooks for this event.
RawBuffer(hdrOk, eventID, argnum, args, stackID, policy) ==
  [hdrOk |-> hdrOk, EventID |-> eventID, Argnum |-> argnum, args |-> args,
   StackID |-> stackID, policy |-> policy]

TwoArgs == <<WireArg(1, 11, TRUE), WireArg(2, 12, TRUE)>>

BufValid      == RawBuffer(TRUE, 7, 2, TwoArgs, 0, "pass")
BufEven       == RawBuffer(TRUE, 4, 2, <<WireArg(2, 22, TRUE), WireArg(1, 21, TRUE)>>, 1, "pass")
BufBadHeader  == RawBuffer(FALSE, 0, 0, <<>>, 0, "pass")
BufBadArg     == RawBuffer(TRUE, 7, 2, <<WireArg(1, 11, FALSE), WireArg(2, 12, TRUE)>>, 0, "pass")
BufNoProcess  == RawBuffer(TRUE, 7, 0, <<>>, 0, "noprocess")
BufProcessErr == RawBuffer(TRUE, 7, 1, <<WireArg(2, 12, TRUE)>>, 0, "processerr")
BufNoPrint    == RawBuffer(TRUE, 7, 2, TwoArgs, 0, "noprint")
BufPrepareErr == RawBuffer(TRUE, 7, 2, TwoArgs, 0, "prepareerr")
BufBadName    == RawBuffer(TRUE, 7, 2, <<WireArg(3, 13, TRUE), WireArg(2, 12, TRUE)>>, 0, "pass")
BufNewEvtErr  == RawBuffer(TRUE, 7, 2, TwoArgs, 0, "neweventerr")
BufBadArgs    == RawBuffer(TRUE, 7, 2, <<WireArg(1, 11, FALSE), WireArg(2, 12, FALSE)>>, 0, "pass")

\* a valid buffer whose event carries stack id stackID
BufStack(stackID) == RawBuffer(TRUE, 7, 2, TwoArgs, stackID, "pass")

RawBuffers ==
  {BufValid, BufEven, BufBadHeader, BufBadArg, BufNoProcess, BufProcessErr,
   BufNoPrint, BufPrepareErr, BufBadName, BufNewEvtErr}

\* a backend whose buffers all carry two corrupt arguments
BurstBuffers == {BufBadArgs}

\* a backend whose events carry stack ids the map holds (2, 3, 4) or not (0)
StackBuffers == {BufStack(id) : id \in {0, 2, 3, 4}} \cup {BufBadHeader}

\* a backend whose buffers all decode, some dropped by a predicate or a hook
FilteredBuffers == {BufValid, BufNoProcess, BufProcessErr, BufNoPrint, BufPrepareErr}

(* ------------------------------------------------------------------ *)
(* External collaborators                                              *)
(* ------------------------------------------------------------------ *)

shouldProcessEvent(rawEvent) == rawEvent.Ctx.policy # "noprocess"

processEventFails(rawEvent) == rawEvent.Ctx.policy = "processerr"

shouldPrintEvent(rawEvent) == rawEvent.Ctx.policy # "noprint"

prepareArgsForPrintFails(rawEvent) == rawEvent.Ctx.policy = "prepareerr"

newEventFails(ctx) == ctx.policy = "neweventerr"

\* prepareArgsForPrint rewrites argument values in place for display
prepareArgsForPrint(rawArgs) ==
  [t \in DOMAIN rawArgs |-> [rawArgs[t] EXCEPT !.shown = TRUE]]

\* t.DecParamName: one tag -> name table per EventID % 2
DecParamName ==
  [sel \in {0, 1} |->
     IF sel = 0 THEN [t \in {1, 2} |-> IF t = 1 THEN "even_fd" ELSE "even_buf"]
                ELSE [t \in {1, 2} |-> IF t = 1 THEN "odd_fd" ELSE "odd_buf"]]

\* the "stack_traces" map of the bpf module: stack id -> the frames of the
\* stack, maxStackDepth addresses, zero after the last frame
Pad(words) == words \o [i \in 1..(maxStackDepth - Len(words)) |-> 0]

stackTracesMap ==
  [id \in 1..4 |->
     CASE id = 1 -> Pad(<<16, 255, 0, 48>>)
       [] id = 2 -> Pad(<<16, 32, 0, 48>>)
       [] id = 3 -> Pad(<<0, 16>>)
       [] id = 4 -> [k \in 1..maxStackDepth |-> 4096 + k]]

(* ------------------------------------------------------------------ *)
(* Go channels and maps                                                *)
(* ------------------------------------------------------------------ *)

\* a channel that hands out the newest value first
EnqueueFront(q, x) == <<x>> \o q

\* ch <- x on a buffered channel: x joins the back of the FIFO
Enqueue(q, x) == Append(q, x)

\* a range that ends as soon as the channel is closed
RangeEndsOnClose(q, closed) == closed

\* `for x := range ch` ends when ch is closed and nothing is buffered
RangeEnds(q, closed) == closed /\ q = <<>>

\* m[k] = v
MapPut(m, k, v) == [x \in (DOMAIN m) \cup {k} |-> IF x = k THEN v ELSE m[x]]

\* m[k], the zero value (nil) when k is absent
Nil == [nil |-> TRUE]

MapGet(m, k) == IF k \in DOMAIN m THEN m[k] ELSE Nil

EmptyMap == <<>>

(* ------------------------------------------------------------------ *)
(* decodeRawEvent: the body of one iteration                           *)
(* ------------------------------------------------------------------ *)

\* an error value; (stage, ev, n) identifies it: the n-th error stage
\* `stage` reports for the buffer taken ev-th from the source
Err(stage, ev, n, kind) == [stage |-> stage, ev |-> ev, n |-> n, kind |-> kind]

\* readArgFromBuff on the i-th argument slot of the buffer
readArgFromBuff(args, i) ==
  IF i <= Len(args) /\ args[i].ok
  THEN [tag |-> args[i].tag, val |-> args[i].val, err |-> FALSE]
  ELSE [tag |-> 0, val |-> Nil, err |-> TRUE]

\* argsTags = append(argsTags, tag) on a slice made with Argnum entries
AppendTag(argsTags, i, tag) == Append(argsTags, tag)

\* argsTags[i] = tag
SetTag(argsTags, i, tag) == [argsTags EXCEPT ![i] = tag]

\* the argument loop from slot i on (slots are 1-based here)
RECURSIVE decodeArgs(_, _, _, _, _, _)
decodeArgs(ev, buf, i, rawArgs, argsTags, errs) ==
  IF i > buf.Argnum
  THEN [RawArgs |-> rawArgs, ArgsTags |-> argsTags, errs |-> errs]
  ELSE LET r == readArgFromBuff(buf.args, i) IN
       IF r.err
       THEN decodeArgs(ev, buf, i + 1, rawArgs, argsTags,
                       Append(errs, Err("decode", ev, Len(errs) + 1, "arg")))
       ELSE decodeArgs(ev, buf, i + 1, MapPut(rawArgs, r.tag, r.val),
                       SetTag(argsTags, i, r.tag), errs)

context(buf) ==
  [EventID |-> buf.EventID, Argnum |-> buf.Argnum, StackID |-> buf.StackID,
   policy |-> buf.policy]

\* an iteration that reports the header error and decodes the arguments
\* all the same
decodeBodyNoContinue(ev, buf) ==
  LET first == IF buf.hdrOk THEN <<>> ELSE <<Err("decode", ev, 1, "header")>>
      d == decodeArgs(ev, buf, 1, EmptyMap, [k \in 1..buf.Argnum |-> 0], first)
  IN [errs |-> d.errs,
      out  |-> [id |-> ev, Ctx |-> context(buf), RawArgs |-> d.RawArgs,
                ArgsTags |-> d.ArgsTags]]

\* what one iteration reports and hands on: errs are sent on errc one by
\* one, then out (unless None) is offered on the output channel
decodeBody(ev, buf) ==
  IF ~buf.hdrOk
  THEN [errs |-> <<Err("decode", ev, 1, "header")>>, out |-> None]
  ELSE LET d == decodeArgs(ev, buf, 1, EmptyMap, [k \in 1..buf.Argnum |-> 0], <<>>) IN
       [errs |-> d.errs,
        out  |-> [id |-> ev, Ctx |-> context(buf), RawArgs |-> d.RawArgs,
                  ArgsTags |-> d.ArgsTags]]

(* ------------------------------------------------------------------ *)
(* processRawEvent: the body of one iteration                          *)
(* ------------------------------------------------------------------ *)

\* an iteration that reports the hook's failure and forwards the event
\* all the same
processBodyNoContinue(rawEvent) ==
  IF ~shouldProcessEvent(rawEvent)
  THEN [errs |-> <<>>, out |-> None, calls |-> <<"shouldProcessEvent">>]
  ELSE [errs |-> IF processEventFails(rawEvent)
                 THEN <<Err("process", rawEvent.id, 1, "processEvent")>>
                 ELSE <<>>,
        out |-> rawEvent,
        calls |-> <<"shouldProcessEvent", "processEvent">>]

\* calls lists, in order, the external collaborators the iteration calls
processBody(rawEvent) ==
  IF ~shouldProcessEvent(rawEvent)
  THEN [errs |-> <<>>, out |-> None, calls |-> <<"shouldProcessEvent">>]
  ELSE IF processEventFails(rawEvent)
  THEN [errs |-> <<Err("process", rawEvent.id, 1, "processEvent")>>, out |-> None,
        calls |-> <<"shouldProcessEvent", "processEvent">>]
  ELSE [errs |-> <<>>, out |-> rawEvent,
        calls |-> <<"shouldProcessEvent", "processEvent">>]

(* ------------------------------------------------------------------ *)
(* getStackTrace                                                       *)
(* ------------------------------------------------------------------ *)

\* strings are sequences of one-character strings
HexDigits == <<"0", "1", "2", "3", "4", "5", "6", "7", "8", "9",
               "A", "B", "C", "D", "E", "F">>

\* %X of fmt.Sprintf
RECURSIVE FormatX(_)
FormatX(n) ==
  IF n < 16 THEN <<HexDigits[n + 1]>>
  ELSE FormatX(n \div 16) \o <<HexDigits[(n % 16) + 1]>>

\* strings.TrimSuffix(s, ",")
TrimSuffix(s) ==
  IF Len(s) > 0 /\ s[Len(s)] = "," THEN SubSeq(s, 1, Len(s) - 1) ELSE s

\* strconv.IntSize, the width of int on the platform of the build
VARIABLE IntSize

\* t.bpfModule.GetMap("stack_traces") succeeds
VARIABLE haveStackMap

\* the n low bytes of w, little-endian
RECURSIVE LEBytes(_, _)
LEBytes(w, n) == IF n = 0 THEN <<>> ELSE <<w % 256>> \o LEBytes(w \div 256, n - 1)

\* the value the map keeps for a stack: its frames, eight bytes each
RECURSIVE FrameBytes(_)
FrameBytes(words) ==
  IF words = <<>> THEN <<>> ELSE LEBytes(Head(words), 8) \o FrameBytes(Tail(words))

stackTracesBytes == [id \in DOMAIN stackTracesMap |-> FrameBytes(stackTracesMap[id])]

\* stackTracesMap.GetValue(key, size): the first size bytes of the value
GetValue(key, size) ==
  IF key \notin DOMAIN stackTracesBytes THEN [bytes |-> <<>>, err |-> TRUE]
  ELSE [bytes |-> SubSeq(stackTracesBytes[key], 1, size), err |-> FALSE]

\* binary.LittleEndian.Uint64(b), for b of at least 8 bytes
RECURSIVE LEValue(_, _)
LEValue(b, n) == IF n = 0 THEN 0 ELSE b[1] + 256 * LEValue(Tail(b), n - 1)

Uint64(b) == LEValue(b, 8)

\* the loop over stackBytes from offset i on, stackFrameSize bytes at a
\* time; Uint64 indexes b[7], which panics on a slice shorter than 8 bytes
RECURSIVE stackLoop(_, _, _, _)
stackLoop(stackBytes, stackFrameSize, i, StackTrace) ==
  IF i >= Len(stackBytes) THEN [StackTrace |-> StackTrace, panic |-> FALSE]
  ELSE LET b == SubSeq(stackBytes, i + 1, i + stackFrameSize)
       IN IF Len(b) < 8 THEN [StackTrace |-> StackTrace, panic |-> TRUE]
          ELSE IF Uint64(b) = 0 THEN [StackTrace |-> StackTrace, panic |-> FALSE]
          ELSE stackLoop(stackBytes, stackFrameSize, i + stackFrameSize,
                         StackTrace \o <<"0", "x">> \o FormatX(Uint64(b)) \o <<",">>)

\* getStackTrace on a build whose int is intSize bits wide, with the
\* stack_traces map (haveMap) or without: the string and the error it
\* returns, and whether it panics instead; both lookup failures return "", nil
getStackTraceOn(intSize, haveMap, StackID) ==
  LET stackFrameSize == intSize \div 8
  IN IF ~haveMap THEN [StackTrace |-> <<>>, err |-> FALSE, panic |-> FALSE]
     ELSE LET v == GetValue(StackID, stackFrameSize * maxStackDepth)
          IN IF v.err THEN [StackTrace |-> <<>>, err |-> FALSE, panic |-> FALSE]
             ELSE LET l == stackLoop(v.bytes, stackFrameSize, 0, <<>>)
                  IN [StackTrace |-> TrimSuffix(l.StackTrace), err |-> FALSE,
                      panic |-> l.panic]

\* the stack ids of the events of any backend
StackIDs ==
  {buf.StackID : buf \in RawBuffers \cup BurstBuffers \cup FilteredBuffers \cup StackBuffers}

\* what getStackTrace gives, worked out once per build, map and stack id
stackTraceTable ==
  [intSize \in {32, 64} |->
     [haveMap \in BOOLEAN |->
        [id \in StackIDs |-> getStackTraceOn(intSize, haveMap, id)]]]

\* a resolver that hands the lookup failure to its caller
getStackTraceStrict(StackID) ==
  IF ~haveStackMap \/ StackID \notin DOMAIN stackTracesMap
  THEN [StackTrace |-> <<>>, err |-> TRUE, panic |-> FALSE]
  ELSE stackTraceTable[IntSize][haveStackMap][StackID]

getStackTrace(StackID) == stackTraceTable[IntSize][haveStackMap][StackID]

(* ------------------------------------------------------------------ *)
(* prepareEventForPrint: the body of one iteration                     *)
(* ------------------------------------------------------------------ *)

\* a loop that fills the positions in the order the map hands its keys out
\* (ascending tag) instead of the order of rawEvent.ArgsTags
nameLoopByMap(rawEvent, rawArgs, i, args, argsNames, errs) ==
  LET keys  == DOMAIN rawArgs
      table == DecParamName[rawEvent.Ctx.EventID % 2]
      keyAt(k) == CHOOSE t \in keys : Cardinality({u \in keys : u <= t}) = k
  IN [args |-> [k \in 1..Len(args) |->
                  IF k <= Cardinality(keys) THEN rawArgs[keyAt(k)] ELSE Nil],
      argsNames |-> [k \in 1..Len(argsNames) |->
                       IF k <= Cardinality(keys) /\ keyAt(k) \in DOMAIN table
                       THEN table[keyAt(k)] ELSE ""],
      errs |-> errs]

\* a loop that stops at the first tag it cannot resolve
RECURSIVE nameLoopBreak(_, _, _, _, _, _)
nameLoopBreak(rawEvent, rawArgs, i, args, argsNames, errs) ==
  IF i > Len(rawEvent.ArgsTags)
  THEN [args |-> args, argsNames |-> argsNames, errs |-> errs]
  ELSE LET tag   == rawEvent.ArgsTags[i]
           table == DecParamName[rawEvent.Ctx.EventID % 2]
           args1 == [args EXCEPT ![i] = MapGet(rawArgs, tag)]
       IN IF tag \in DOMAIN table
          THEN nameLoopBreak(rawEvent, rawArgs, i + 1, args1,
                             [argsNames EXCEPT ![i] = table[tag]], errs)
          ELSE [args |-> args1, argsNames |-> argsNames,
                errs |-> Append(errs, Err("prepare", rawEvent.id, Len(errs) + 1,
                                          "invalid arg tag"))]

\* the loop over rawEvent.ArgsTags from position i on; names start as "",
\* values as nil
RECURSIVE nameLoop(_, _, _, _, _, _)
nameLoop(rawEvent, rawArgs, i, args, argsNames, errs) ==
  IF i > Len(rawEvent.ArgsTags)
  THEN [args |-> args, argsNames |-> argsNames, errs |-> errs]
  ELSE LET tag   == rawEvent.ArgsTags[i]
           table == DecParamName[rawEvent.Ctx.EventID % 2]
           args1 == [args EXCEPT ![i] = MapGet(rawArgs, tag)]
       IN IF tag \in DOMAIN table
          THEN nameLoop(rawEvent, rawArgs, i + 1, args1,
                        [argsNames EXCEPT ![i] = table[tag]], errs)
          ELSE nameLoop(rawEvent, rawArgs, i + 1, args1, argsNames,
                        Append(errs, Err("prepare", rawEvent.id, Len(errs) + 1,
                                         "invalid arg tag")))

\* an iteration that treats a failed stack lookup as an error of the event
prepareBuildStrict(rawEvent, errs, calls) ==
  LET n == rawEvent.Ctx.Argnum
      l == nameLoop(rawEvent, prepareArgsForPrint(rawEvent.RawArgs), 1,
                    [k \in 1..n |-> Nil], [k \in 1..n |-> ""], errs)
      st == getStackTraceStrict(rawEvent.Ctx.StackID)
      called == calls \o [k \in 1..Len(rawEvent.ArgsTags) |-> "DecParamName"]
                      \o <<"getStackTrace">>
  IN IF st.panic
     THEN [errs |-> l.errs, out |-> None, calls |-> called, panic |-> TRUE]
     ELSE IF st.err
     THEN [errs |-> Append(l.errs, Err("prepare", rawEvent.id,
                                       Len(l.errs) + 1, "getStackTrace")),
           out |-> None, calls |-> called, panic |-> FALSE]
     ELSE [errs |-> l.errs,
           out  |-> [id |-> rawEvent.id, Ctx |-> rawEvent.Ctx,
                     ArgsNames |-> l.argsNames, Args |-> l.args,
                     StackTrace |-> st.StackTrace],
           calls |-> Append(called, "newEvent"), panic |-> FALSE]

\* from the make of args on: names, stack trace, newEvent; errs and calls
\* are what the iteration has reported and called so far
prepareBuild(rawEvent, errs, calls) ==
  LET n == rawEvent.Ctx.Argnum
      l == nameLoop(rawEvent, prepareArgsForPrint(rawEvent.RawArgs), 1,
                    [k \in 1..n |-> Nil], [k \in 1..n |-> ""], errs)
      \* stackTrace, _ = t.getStackTrace(...): the error is discarded
      st == getStackTrace(rawEvent.Ctx.StackID)
      called == calls \o [k \in 1..Len(rawEvent.ArgsTags) |-> "DecParamName"]
                      \o <<"getStackTrace">>
  IN IF st.panic
     THEN [errs |-> l.errs, out |-> None, calls |-> called, panic |-> TRUE]
     ELSE IF newEventFails(rawEvent.Ctx)
     THEN [errs |-> Append(l.errs, Err("prepare", rawEvent.id,
                                       Len(l.errs) + 1, "newEvent")),
           out |-> None, calls |-> Append(called, "newEvent"), panic |-> FALSE]
     ELSE [errs |-> l.errs,
           out  |-> [id |-> rawEvent.id, Ctx |-> rawEvent.Ctx,
                     ArgsNames |-> l.argsNames, Args |-> l.args,
                     StackTrace |-> st.StackTrace],
           calls |-> Append(called, "newEvent"), panic |-> FALSE]

\* an iteration that reports the hook's failure and builds the event all
\* the same
prepareBodyNoContinue(rawEvent) ==
  IF ~shouldPrintEvent(rawEvent)
  THEN [errs |-> <<>>, out |-> None, calls |-> <<"shouldPrintEvent">>, panic |-> FALSE]
  ELSE prepareBuild(rawEvent,
                    IF prepareArgsForPrintFails(rawEvent)
                    THEN <<Err("prepare", rawEvent.id, 1, "prepareArgsForPrint")>>
                    ELSE <<>>,
                    <<"shouldPrintEvent", "prepareArgsForPrint">>)

prepareBody(rawEvent) ==
  IF ~shouldPrintEvent(rawEvent)
  THEN [errs |-> <<>>, out |-> None, calls |-> <<"shouldPrintEvent">>, panic |-> FALSE]
  ELSE IF prepareArgsForPrintFails(rawEvent)
  THEN [errs |-> <<Err("prepare", rawEvent.id, 1, "prepareArgsForPrint")>>,
        out |-> None, calls |-> <<"shouldPrintEvent", "prepareArgsForPrint">>,
        panic |-> FALSE]
  ELSE prepareBuild(rawEvent, <<>>, <<"shouldPrintEvent", "prepareArgsForPrint">>)

(* ------------------------------------------------------------------ *)
(* State                                                               *)
(* ------------------------------------------------------------------ *)

VARIABLES
  source,          \* the buffers the backend puts on t.eventsChannel, in order
  srcOpen,         \* t.eventsChannel is not closed yet
  nTaken,          \* how many buffers decodeRawEvent has received
  done,            \* the done channel has been closed (cancellation)
  pc,              \* per stage: "recv", "errc", "out", "count", "print", "exit"
  cur,             \* per stage: the event it holds, or None
  pendErr,         \* per stage: errors of this iteration not yet sent on errc
  outClosed,       \* per stage with an output channel: close(out) has run
  errc,            \* per stage: what its error channel buffers
  errcClosed,      \* per stage: close(errc) has run
  printEventChan,  \* what the print preparer's output channel buffers
  eventCounter,    \* t.stats.eventCounter
  rendered,        \* the events given to t.printer.Print, in order
  cpc,             \* per error channel: its output goroutine, "recv" | "send" | "done"
  chold,           \* per error channel: the error its output goroutine holds
  wg,              \* the WaitGroup counter of MergeErrors
  merged,          \* what the merged error channel buffers
  mergedCloses,    \* how many times close(out) of MergeErrors has run
  supPc,           \* WaitForPipeline: "recv" | "handle" | "returned"
  supHold,         \* the error WaitForPipeline is handing to t.handleError
  handled,         \* the errors given to t.handleError
  nHandled,        \* how many times t.handleError has been called
  sentErrs,        \* history: every error a stage has sent on its errc
  forwarded,       \* history: per stage, the ids of the events it sent on out
  calls,           \* history: per stage, the <<event id, collaborator>> calls made
  panicked         \* a send on a closed channel, a second close or an index
                   \* out of range happened

vars == <<source, srcOpen, nTaken, done, pc, cur, pendErr, outClosed, errc,
          errcClosed, printEventChan, eventCounter, rendered, cpc, chold, wg,
          merged, mergedCloses, supPc, supHold, handled, nHandled, sentErrs,
          forwarded, calls, panicked, haveStackMap, IntSize>>

envVars   == <<source, srcOpen, done, haveStackMap, IntSize>>
sinkVars  == <<eventCounter, rendered>>
fanVars   == <<cpc, chold, wg, merged, mergedCloses>>
supVars   == <<supPc, supHold, handled, nHandled>>

OutStages == {"decode", "process", "prepare"}

\* every sequence over S of at most n elements
SeqsUpTo(S, n) == UNION {[1..k -> S] : k \in 0..n}

\* the state once runEventPipeline has started its goroutines and entered
\* WaitForPipeline, with the buffers the backend has queued or will queue
\* on t.eventsChannel drawn from S
InitWith(S, n) ==
  /\ source \in SeqsUpTo(S, n)
  /\ calls = [s \in {"process", "prepare"} |-> <<>>]
  /\ srcOpen = TRUE
  /\ nTaken = 0
  /\ done = FALSE
  /\ pc = [s \in Stages |-> "recv"]
  /\ cur = [s \in Stages |-> None]
  /\ pendErr = [s \in Stages |-> <<>>]
  /\ outClosed = [s \in OutStages |-> FALSE]
  /\ errc = [s \in Stages |-> <<>>]
  /\ errcClosed = [s \in Stages |-> FALSE]
  /\ printEventChan = <<>>
  /\ eventCounter = 0
  /\ rendered = <<>>
  /\ cpc = [s \in Stages |-> "recv"]
  /\ chold = [s \in Stages |-> None]
  /\ wg = Len(errcList)
  /\ merged = <<>>
  /\ mergedCloses = 0
  /\ supPc = "recv"
  /\ supHold = None
  /\ handled = {}
  /\ nHandled = 0
  /\ sentErrs = {}
  /\ forwarded = [s \in OutStages |-> <<>>]
  /\ panicked = FALSE

\* a 64-bit build whose bpf module has the stack_traces map
Init == InitWith(RawBuffers, MaxBuffers) /\ haveStackMap = TRUE /\ IntSize = 64

InitBurst == InitWith(BurstBuffers, MaxBuffers) /\ haveStackMap = TRUE /\ IntSize = 64

InitFiltered == InitWith(FilteredBuffers, MaxFiltered) /\ haveStackMap = TRUE /\ IntSize = 64

\* any build, with or without the stack_traces map
InitStack ==
  InitWith(StackBuffers, MaxBuffers) /\ haveStackMap \in BOOLEAN /\ IntSize \in {32, 64}

(* ------------------------------------------------------------------ *)
(* The environment: the backend closing t.eventsChannel and the caller *)
(* closing done                                                        *)
(* ------------------------------------------------------------------ *)

CloseSource ==
  /\ srcOpen
  /\ srcOpen' = FALSE
  /\ UNCHANGED <<source, haveStackMap, IntSize, nTaken, done, pc, cur, pendErr, outClosed, errc,
                 errcClosed, printEventChan, sinkVars, fanVars, supVars,
                 sentErrs, forwarded, calls, panicked>>

Cancel ==
  /\ ~done
  /\ supPc # "returned"
  /\ done' = TRUE
  /\ UNCHANGED <<source, haveStackMap, IntSize, srcOpen, nTaken, pc, cur, pendErr, outClosed, errc,
                 errcClosed, printEventChan, sinkVars, fanVars, supVars,
                 sentErrs, forwarded, calls, panicked>>

(* ------------------------------------------------------------------ *)
(* What the stages share                                               *)
(* ------------------------------------------------------------------ *)

\* where a stage goes once the errors errs of its iteration are still to
\* be sent and out is what it built: the error sends come first, then the
\* select on out; with neither, `continue` takes the next item
StepAfter(errs, out) ==
  IF errs # <<>> THEN "errc" ELSE IF out # None THEN "out" ELSE "recv"

\* a stage that returns without closing its error channel
ReturnNoCloseErrc(s) ==
  /\ pc' = [pc EXCEPT ![s] = "exit"]
  /\ cur' = [cur EXCEPT ![s] = None]
  /\ pendErr' = [pendErr EXCEPT ![s] = <<>>]
  /\ errcClosed' = errcClosed
  /\ outClosed' = IF s \in OutStages THEN [outClosed EXCEPT ![s] = TRUE]
                  ELSE outClosed
  /\ panicked' = (panicked \/ (s \in OutStages /\ outClosed[s]))

\* the deferred close(errc) and close(out) of stage s, run on return
Return(s) ==
  /\ pc' = [pc EXCEPT ![s] = "exit"]
  /\ cur' = [cur EXCEPT ![s] = None]
  /\ pendErr' = [pendErr EXCEPT ![s] = <<>>]
  /\ errcClosed' = [errcClosed EXCEPT ![s] = TRUE]
  /\ outClosed' = IF s \in OutStages THEN [outClosed EXCEPT ![s] = TRUE]
                  ELSE outClosed
  /\ panicked' = (panicked \/ errcClosed[s] \/ (s \in OutStages /\ outClosed[s]))

\* an error send followed by return instead of continue
SendErrThenReturn(s) ==
  /\ pc[s] = "errc"
  /\ Len(errc[s]) < ErrcCap
  /\ errc' = [errc EXCEPT ![s] = Append(@, Head(pendErr[s]))]
  /\ sentErrs' = sentErrs \cup {Head(pendErr[s])}
  /\ Return(s)
  /\ UNCHANGED <<envVars, nTaken, printEventChan, sinkVars, fanVars, supVars,
                 forwarded, calls>>

\* errc <- err: a plain send, buffered by the channel's capacity of 1
SendErr(s) ==
  /\ pc[s] = "errc"
  /\ IF errcClosed[s]
     THEN /\ panicked' = TRUE
          /\ UNCHANGED <<pc, pendErr, errc, sentErrs>>
     ELSE /\ Len(errc[s]) < ErrcCap
          /\ errc' = [errc EXCEPT ![s] = Enqueue(@, Head(pendErr[s]))]
          /\ sentErrs' = sentErrs \cup {Head(pendErr[s])}
          /\ pendErr' = [pendErr EXCEPT ![s] = Tail(@)]
          /\ pc' = [pc EXCEPT ![s] = StepAfter(Tail(pendErr[s]), cur[s])]
          /\ UNCHANGED panicked
  /\ UNCHANGED <<envVars, nTaken, cur, outClosed, errcClosed, printEventChan,
                 sinkVars, fanVars, supVars, forwarded, calls>>

\* case <-done: return, in the select around the send on out
ObserveDone(s) ==
  /\ s \in OutStages
  /\ pc[s] = "out"
  /\ done
  /\ Return(s)
  /\ UNCHANGED <<envVars, nTaken, errc, printEventChan, sinkVars, fanVars,
                 supVars, sentErrs, forwarded, calls>>

(* ------------------------------------------------------------------ *)
(* decodeRawEvent                                                      *)
(* ------------------------------------------------------------------ *)

\* the buffers on t.eventsChannel not yet received
pending == SubSeq(source, nTaken + 1, Len(source))

\* for dataRaw := range t.eventsChannel: one buffer is taken and decoded
decodeRecv ==
  /\ pc["decode"] = "recv"
  /\ pending # <<>>
  /\ LET ev == nTaken + 1
         b  == decodeBody(ev, source[ev])
     IN /\ nTaken' = ev
        /\ pc' = [pc EXCEPT !["decode"] = StepAfter(b.errs, b.out)]
        /\ cur' = [cur EXCEPT !["decode"] = b.out]
        /\ pendErr' = [pendErr EXCEPT !["decode"] = b.errs]
  /\ UNCHANGED <<envVars, outClosed, errc, errcClosed, printEventChan,
                 sinkVars, fanVars, supVars, sentErrs, forwarded, calls, panicked>>

\* the range over t.eventsChannel ends: the deferred closes run
decodeRangeEnd ==
  /\ pc["decode"] = "recv"
  /\ RangeEnds(pending, ~srcOpen)
  /\ Return("decode")
  /\ UNCHANGED <<envVars, nTaken, errc, printEventChan, sinkVars, fanVars,
                 supVars, sentErrs, forwarded, calls>>

\* case out <- RawEvent{...}: out is unbuffered, so the send completes in
\* one step with processRawEvent's receive, which then runs its iteration
decodeSend ==
  /\ pc["decode"] = "out"
  /\ IF outClosed["decode"]
     THEN /\ panicked' = TRUE
          /\ UNCHANGED <<pc, cur, pendErr, forwarded, calls>>
     ELSE /\ pc["process"] = "recv"
          /\ LET b == processBody(cur["decode"])
             IN /\ pc' = [pc EXCEPT !["decode"] = "recv",
                                    !["process"] = StepAfter(b.errs, b.out)]
                /\ cur' = [cur EXCEPT !["decode"] = None, !["process"] = b.out]
                /\ pendErr' = [pendErr EXCEPT !["process"] = b.errs]
                /\ calls' = [calls EXCEPT !["process"] =
                               @ \o [k \in 1..Len(b.calls) |-> <<cur["decode"].id, b.calls[k]>>]]
          /\ forwarded' = [forwarded EXCEPT !["decode"] = Append(@, cur["decode"].id)]
          /\ UNCHANGED panicked
  /\ UNCHANGED <<envVars, nTaken, outClosed, errc, errcClosed, printEventChan,
                 sinkVars, fanVars, supVars, sentErrs>>

(* ------------------------------------------------------------------ *)
(* processRawEvent                                                     *)
(* ------------------------------------------------------------------ *)

\* the range over in ends: in is unbuffered, so closed means ended
processRangeEnd ==
  /\ pc["process"] = "recv"
  /\ RangeEnds(<<>>, outClosed["decode"])
  /\ Return("process")
  /\ UNCHANGED <<envVars, nTaken, errc, printEventChan, sinkVars, fanVars,
                 supVars, sentErrs, forwarded, calls>>

\* case out <- rawEvent: joint with prepareEventForPrint's receive
processSend ==
  /\ pc["process"] = "out"
  /\ IF outClosed["process"]
     THEN /\ panicked' = TRUE
          /\ UNCHANGED <<pc, cur, pendErr, forwarded, calls>>
     ELSE /\ pc["prepare"] = "recv"
          /\ LET b == prepareBody(cur["process"])
             IN /\ pc' = [pc EXCEPT !["process"] = "recv",
                                    !["prepare"] = StepAfter(b.errs, b.out)]
                /\ cur' = [cur EXCEPT !["process"] = None, !["prepare"] = b.out]
                /\ pendErr' = [pendErr EXCEPT !["prepare"] = b.errs]
                /\ calls' = [calls EXCEPT !["prepare"] =
                               @ \o [k \in 1..Len(b.calls) |-> <<cur["process"].id, b.calls[k]>>]]
                /\ panicked' = (panicked \/ b.panic)
          /\ forwarded' = [forwarded EXCEPT !["process"] = Append(@, cur["process"].id)]
  /\ UNCHANGED <<envVars, nTaken, outClosed, errc, errcClosed, printEventChan,
                 sinkVars, fanVars, supVars, sentErrs>>

(* ------------------------------------------------------------------ *)
(* prepareEventForPrint                                                *)
(* ------------------------------------------------------------------ *)

prepareRangeEnd ==
  /\ pc["prepare"] = "recv"
  /\ RangeEnds(<<>>, outClosed["process"])
  /\ Return("prepare")
  /\ UNCHANGED <<envVars, nTaken, errc, printEventChan, sinkVars, fanVars,
                 supVars, sentErrs, forwarded, calls>>

\* case out <- evt: out buffers up to PrintChanCap events
prepareSend ==
  /\ pc["prepare"] = "out"
  /\ IF outClosed["prepare"]
     THEN /\ panicked' = TRUE
          /\ UNCHANGED <<pc, cur, printEventChan, forwarded, calls>>
     ELSE /\ Len(printEventChan) < PrintChanCap
          /\ printEventChan' = Enqueue(printEventChan, cur["prepare"])
          /\ pc' = [pc EXCEPT !["prepare"] = "recv"]
          /\ cur' = [cur EXCEPT !["prepare"] = None]
          /\ forwarded' = [forwarded EXCEPT !["prepare"] = Append(@, cur["prepare"].id)]
          /\ UNCHANGED <<panicked, calls>>
  /\ UNCHANGED <<envVars, nTaken, pendErr, outClosed, errc, errcClosed,
                 sinkVars, fanVars, supVars, sentErrs>>

(* ------------------------------------------------------------------ *)
(* printEvent                                                          *)
(* ------------------------------------------------------------------ *)

\* a sink that counts every event twice
printIncrementTwice ==
  /\ pc["print"] = "count"
  /\ eventCounter' = eventCounter + 2
  /\ pc' = [pc EXCEPT !["print"] = "print"]
  /\ UNCHANGED <<envVars, nTaken, cur, pendErr, outClosed, errc, errcClosed,
                 printEventChan, rendered, fanVars, supVars, sentErrs,
                 forwarded, calls, panicked>>

\* a sink that looks at the head of its channel without taking it off
printRecvPeek ==
  /\ pc["print"] = "recv"
  /\ printEventChan # <<>>
  /\ cur' = [cur EXCEPT !["print"] = Head(printEventChan)]
  /\ printEventChan' = printEventChan
  /\ pc' = [pc EXCEPT !["print"] = "count"]
  /\ UNCHANGED <<envVars, nTaken, pendErr, outClosed, errc, errcClosed,
                 sinkVars, fanVars, supVars, sentErrs, forwarded, calls, panicked>>

\* for printEvent := range in
printRecv ==
  /\ pc["print"] = "recv"
  /\ printEventChan # <<>>
  /\ cur' = [cur EXCEPT !["print"] = Head(printEventChan)]
  /\ printEventChan' = Tail(printEventChan)
  /\ pc' = [pc EXCEPT !["print"] = "count"]
  /\ UNCHANGED <<envVars, nTaken, pendErr, outClosed, errc, errcClosed,
                 sinkVars, fanVars, supVars, sentErrs, forwarded, calls, panicked>>

printRangeEnd ==
  /\ pc["print"] = "recv"
  /\ RangeEnds(printEventChan, outClosed["prepare"])
  /\ Return("print")
  /\ UNCHANGED <<envVars, nTaken, errc, printEventChan, sinkVars, fanVars,
                 supVars, sentErrs, forwarded, calls>>

\* t.stats.eventCounter.Increment()
printIncrement ==
  /\ pc["print"] = "count"
  /\ eventCounter' = eventCounter + 1
  /\ pc' = [pc EXCEPT !["print"] = "print"]
  /\ UNCHANGED <<envVars, nTaken, cur, pendErr, outClosed, errc, errcClosed,
                 printEventChan, rendered, fanVars, supVars, sentErrs,
                 forwarded, calls, panicked>>

\* t.printer.Print(printEvent)
printPrint ==
  /\ pc["print"] = "print"
  /\ rendered' = Append(rendered, cur["print"])
  /\ cur' = [cur EXCEPT !["print"] = None]
  /\ pc' = [pc EXCEPT !["print"] = "recv"]
  /\ UNCHANGED <<envVars, nTaken, pendErr, outClosed, errc, errcClosed,
                 printEventChan, eventCounter, fanVars, supVars, sentErrs,
                 forwarded, calls, panicked>>

(* ------------------------------------------------------------------ *)
(* MergeErrors                                                         *)
(* ------------------------------------------------------------------ *)

\* out := make(chan error, len(cs))
mergedCap == Len(errcList)

\* for n := range c, in the output goroutine of error channel c
outputRecv(s) ==
  /\ cpc[s] = "recv"
  /\ errc[s] # <<>>
  /\ chold' = [chold EXCEPT ![s] = Head(errc[s])]
  /\ errc' = [errc EXCEPT ![s] = Tail(@)]
  /\ cpc' = [cpc EXCEPT ![s] = "send"]
  /\ UNCHANGED <<envVars, nTaken, pc, cur, pendErr, outClosed, errcClosed,
                 printEventChan, sinkVars, wg, merged, mergedCloses, supVars,
                 sentErrs, forwarded, calls, panicked>>

\* out <- n
outputSend(s) ==
  /\ cpc[s] = "send"
  /\ IF mergedCloses > 0
     THEN /\ panicked' = TRUE
          /\ UNCHANGED <<merged, chold, cpc>>
     ELSE /\ Len(merged) < mergedCap
          /\ merged' = Enqueue(merged, chold[s])
          /\ chold' = [chold EXCEPT ![s] = None]
          /\ cpc' = [cpc EXCEPT ![s] = "recv"]
          /\ UNCHANGED panicked
  /\ UNCHANGED <<envVars, nTaken, pc, cur, pendErr, outClosed, errc,
                 errcClosed, printEventChan, sinkVars, wg, mergedCloses,
                 supVars, sentErrs, forwarded, calls>>

\* the range over c ends; wg.Done()
outputDone(s) ==
  /\ cpc[s] = "recv"
  /\ RangeEnds(errc[s], errcClosed[s])
  /\ cpc' = [cpc EXCEPT ![s] = "done"]
  /\ wg' = wg - 1
  /\ UNCHANGED <<envVars, nTaken, pc, cur, pendErr, outClosed, errc,
                 errcClosed, printEventChan, sinkVars, chold, merged,
                 mergedCloses, supVars, sentErrs, forwarded, calls, panicked>>

\* a Wait that returns as soon as one output goroutine is done
WaitReturnsEarly(n) == n < Len(errcList)

\* wg.Wait() returns
WaitReturns(n) == n = 0

\* go func() { wg.Wait(); close(out) }()
closeMerged ==
  /\ mergedCloses = 0
  /\ WaitReturns(wg)
  /\ mergedCloses' = mergedCloses + 1
  /\ UNCHANGED <<envVars, nTaken, pc, cur, pendErr, outClosed, errc,
                 errcClosed, printEventChan, sinkVars, cpc, chold, wg, merged,
                 supVars, sentErrs, forwarded, calls, panicked>>

(* ------------------------------------------------------------------ *)
(* WaitForPipeline                                                     *)
(* ------------------------------------------------------------------ *)

\* for err := range errc
waitRecv ==
  /\ supPc = "recv"
  /\ merged # <<>>
  /\ supHold' = Head(merged)
  /\ merged' = Tail(merged)
  /\ supPc' = "handle"
  /\ UNCHANGED <<envVars, nTaken, pc, cur, pendErr, outClosed, errc,
                 errcClosed, printEventChan, sinkVars, cpc, chold, wg,
                 mergedCloses, handled, nHandled, sentErrs, forwarded, calls, panicked>>

\* t.handleError(err) returns
handleError ==
  /\ supPc = "handle"
  /\ handled' = handled \cup {supHold}
  /\ nHandled' = nHandled + 1
  /\ supHold' = None
  /\ supPc' = "recv"
  /\ UNCHANGED <<envVars, nTaken, pc, cur, pendErr, outClosed, errc,
                 errcClosed, printEventChan, sinkVars, fanVars, sentErrs,
                 forwarded, calls, panicked>>

\* the range over the merged channel ends: return nil
waitReturn ==
  /\ supPc = "recv"
  /\ RangeEnds(merged, mergedCloses > 0)
  /\ supPc' = "returned"
  /\ UNCHANGED <<envVars, nTaken, pc, cur, pendErr, outClosed, errc,
                 errcClosed, printEventChan, sinkVars, fanVars, supHold,
                 handled, nHandled, sentErrs, forwarded, calls, panicked>>

(* ------------------------------------------------------------------ *)
(* Specifications                                                      *)
(* ------------------------------------------------------------------ *)

\* the steps of the program's goroutines
Program ==
  \/ decodeRecv
  \/ decodeRangeEnd
  \/ decodeSend
  \/ processRangeEnd
  \/ processSend
  \/ prepareRangeEnd
  \/ prepareSend
  \/ printRecv
  \/ printRangeEnd
  \/ printIncrement
  \/ printPrint
  \/ \E s \in Stages : SendErr(s)
  \/ \E s \in OutStages : ObserveDone(s)
  \/ \E s \in Stages : outputRecv(s)
  \/ \E s \in Stages : outputSend(s)
  \/ \E s \in Stages : outputDone(s)
  \/ closeMerged
  \/ waitRecv
  \/ handleError
  \/ waitReturn

Environment ==
  \/ CloseSource
  \/ Cancel

Next == Program \/ Environment

Spec == Init /\ [][Next]_vars

SpecBurst == InitBurst /\ [][Next]_vars

SpecFiltered == InitFiltered /\ [][Next]_vars

SpecStack == InitStack /\ [][Next]_vars

\* every runnable goroutine is eventually scheduled and t.handleError
\* returns: the program does not stop while one of its steps is possible
FairSpec == Spec /\ WF_vars(Program)

(* ------------------------------------------------------------------ *)
(* What a run should produce                                           *)
(* ------------------------------------------------------------------ *)

\* the Final Event the three stage bodies make of the ev-th buffer, or None
\* when one of them drops it
FinalOf(ev, buf) ==
  LET d == decodeBody(ev, buf) IN
  IF d.out = None THEN None
  ELSE LET p == processBody(d.out) IN
       IF p.out = None THEN None ELSE prepareBody(p.out).out

\* the positions in source of the buffers that survive every filter and hook
SurvivorIds ==
  SelectSeq([i \in 1..Len(source) |-> i], LAMBDA i : FinalOf(i, source[i]) # None)

RenderedIds == [k \in 1..Len(rendered) |-> rendered[k].id]

IsPrefix(p, q) == Len(p) <= Len(q) /\ SubSeq(q, 1, Len(p)) = p

AllStagesExited == \A s \in Stages : pc[s] = "exit"

Returned == supPc = "returned"

(* ------------------------------------------------------------------ *)
(* C1                                                                  *)
(* ------------------------------------------------------------------ *)

\* C1: the events the sink has rendered are, in order, the first survivors
\* of the source: a survivor is never rendered after a later one, whatever
\* was dropped between them and whatever the interleaving.
C1_OrderPreserved == IsPrefix(RenderedIds, SurvivorIds)

\* two survivors rendered in source order although the buffer between them
\* was dropped
C1_Witness ==
  /\ Len(source) = 3
  /\ FinalOf(2, source[2]) = None
  /\ RenderedIds = <<1, 3>>

(* ------------------------------------------------------------------ *)
(* C2                                                                  *)
(* ------------------------------------------------------------------ *)

\* C2: once cancellation has fired with the source still open, the pipeline
\* cannot be stuck short of returning: either runEventPipeline has returned
\* or some goroutine of the program can still take a step.
C2_CancelNeverStuck == (done /\ srcOpen) => (Returned \/ ENABLED Program)

(* ------------------------------------------------------------------ *)
(* C3                                                                  *)
(* ------------------------------------------------------------------ *)

\* stage s cannot complete an error send until WaitForPipeline takes an
\* error off the merged channel: its errc is full, the output goroutine of
\* that errc holds an error it cannot deliver, the merged channel is full
WaitsForDrain(s) ==
  /\ pc[s] = "errc"
  /\ Len(errc[s]) >= ErrcCap
  /\ cpc[s] = "send"
  /\ Len(merged) >= mergedCap

\* C3: no stage is ever held on a send to its own error channel until the
\* drain loop of WaitForPipeline makes room; the capacities of errc (1) and
\* of the merged channel (one per error channel) always suffice.
C3_ErrSendNeverWaits == \A s \in Stages : ~WaitsForDrain(s)

(* ------------------------------------------------------------------ *)
(* C4                                                                  *)
(* ------------------------------------------------------------------ *)

\* the stage that receives what stage s sends on out
Downstream(s) == IF s = "decode" THEN "process" ELSE "prepare"

\* stage s is at a send that cannot complete now
BlockedOnSend(s) ==
  \/ pc[s] = "errc" /\ Len(errc[s]) >= ErrcCap
  \/ s \in {"decode", "process"} /\ pc[s] = "out" /\ pc[Downstream(s)] # "recv"
  \/ s = "prepare" /\ pc[s] = "out" /\ Len(printEventChan) >= PrintChanCap

\* C4: whenever cancellation has fired and a stage is blocked on a send, to
\* out or to errc, that stage can observe done and return.
C4_SendsRaceCancellation ==
  \A s \in OutStages : (done /\ BlockedOnSend(s)) => ENABLED ObserveDone(s)

(* ------------------------------------------------------------------ *)
(* C5                                                                  *)
(* ------------------------------------------------------------------ *)

\* C5: once cancellation has fired no stage sends another event on its out
\* channel and the sink renders no further event.
C5_CancelDoesNotFlush ==
  [][done => (forwarded' = forwarded /\ rendered' = rendered)]_vars

(* ------------------------------------------------------------------ *)
(* C6                                                                  *)
(* ------------------------------------------------------------------ *)

\* every stage has returned and closed its channels, the merged error
\* channel is closed and runEventPipeline has returned
PipelineOver ==
  /\ AllStagesExited
  /\ \A s \in OutStages : outClosed[s]
  /\ \A s \in Stages : errcClosed[s]
  /\ mergedCloses > 0
  /\ Returned

\* C6: under fair scheduling, once the source is closed and as long as
\* cancellation is not signalled, the run ends: all stages exit with their
\* channels closed, the merged error channel closes, runEventPipeline
\* returns, and by then every survivor has been rendered, in order.
C6_CleanEndOfStream ==
  (~srcOpen /\ ~done) ~> (done \/ (PipelineOver /\ RenderedIds = SurvivorIds))

\* a run that ended by the source closing, with an event rendered
C6_Witness == PipelineOver /\ ~done /\ ~srcOpen /\ Len(rendered) = MaxBuffers

(* ------------------------------------------------------------------ *)
(* C7                                                                  *)
(* ------------------------------------------------------------------ *)

\* C7: t.handleError is given only errors that a stage has sent, each at
\* most once, and when runEventPipeline returns it has been given every
\* one of them.
C7_ErrorsHandledOnce ==
  /\ handled \subseteq sentErrs
  /\ nHandled = Cardinality(handled)
  /\ Returned => handled = sentErrs

\* a run that ended by the source closing, in which two stages reported
\* errors and all of them were handled
C7_Witness ==
  /\ Returned
  /\ ~done
  /\ \E e, f \in handled : e.stage # f.stage
  /\ nHandled = Cardinality(sentErrs)

(* ------------------------------------------------------------------ *)
(* C8                                                                  *)
(* ------------------------------------------------------------------ *)

\* C8: the merged error channel is closed at most once and only when every
\* stage has closed its error channel and every output goroutine is done;
\* nothing is ever sent on a closed channel and nothing is closed twice.
C8_MergedClosedLast ==
  /\ mergedCloses <= 1
  /\ mergedCloses > 0 => \A s \in Stages : errcClosed[s] /\ cpc[s] = "done"
  /\ \A s \in Stages : pc[s] \in {"errc", "out"} =>
       ~errcClosed[s] /\ (s \in OutStages => ~outClosed[s])
  /\ ~panicked

\* the merged channel closed after errors went through it
C8_Witness == mergedCloses = 1 /\ handled # {} /\ merged = <<>>

(* ------------------------------------------------------------------ *)
(* C9                                                                  *)
(* ------------------------------------------------------------------ *)

\* the input of stage s is closed and holds nothing more
InputEnded(s) ==
  CASE s = "decode"  -> ~srcOpen /\ pending = <<>>
    [] s = "process" -> outClosed["decode"]
    [] s = "prepare" -> outClosed["process"]
    [] s = "print"   -> outClosed["prepare"] /\ printEventChan = <<>>

\* C9: a stage that sends an error goes on with its iteration or takes the
\* next item, it does not return; a stage returns only when its input has
\* ended or when it observes done at its select; so a run that ends by the
\* source closing, without cancellation, has rendered every survivor, also
\* those that came after a buffer for which an error was reported.
C9_ErrorsDoNotStopStages ==
  /\ [][\A s \in Stages :
          /\ (pc[s] = "errc" => pc'[s] \in {"errc", "out", "recv"})
          /\ (pc[s] # "exit" /\ pc'[s] = "exit" =>
                \/ pc[s] = "recv" /\ InputEnded(s)
                \/ pc[s] = "out" /\ done)]_vars
  /\ [](Returned /\ ~done => RenderedIds = SurvivorIds)

\* an error was reported for the first buffer and the second buffer was
\* still rendered
C9_Witness ==
  /\ \E e \in handled : e.ev = 1
  /\ \E k \in 1..Len(rendered) : rendered[k].id = 2

(* ------------------------------------------------------------------ *)
(* C10                                                                 *)
(* ------------------------------------------------------------------ *)

\* the header of buf decodes and so does each of the Argnum arguments it
\* declares, with pairwise distinct tags
FullyValid(buf) ==
  /\ buf.hdrOk
  /\ Len(buf.args) = buf.Argnum
  /\ \A i \in 1..buf.Argnum : buf.args[i].ok
  /\ \A i, j \in 1..buf.Argnum : i # j => buf.args[i].tag # buf.args[j].tag

\* rawEvent carries exactly the arguments of buf, in wire order
MatchesWire(rawEvent, buf) ==
  /\ Len(rawEvent.ArgsTags) = buf.Argnum
  /\ \A i \in 1..buf.Argnum : rawEvent.ArgsTags[i] = buf.args[i].tag
  /\ DOMAIN rawEvent.RawArgs = {buf.args[i].tag : i \in 1..buf.Argnum}
  /\ Cardinality(DOMAIN rawEvent.RawArgs) = buf.Argnum
  /\ \A i \in 1..buf.Argnum : rawEvent.RawArgs[buf.args[i].tag] = buf.args[i].val

\* how many times the decoder has sent the event of the i-th buffer
TimesForwarded(i) ==
  Cardinality({k \in 1..Len(forwarded["decode"]) : forwarded["decode"][k] = i})

\* C10: for a fully valid buffer the Raw Event the decoder builds has
\* exactly the declared arguments, tags in wire order, each tag mapped to
\* its value; the decoder reports no error for it and sends it exactly once
\* (it is still to be sent only while the decoder is at its select, or when
\* the decoder observed done there).
C10_ValidBufferDecoded ==
  \A i \in 1..nTaken : FullyValid(source[i]) =>
    /\ \A e \in sentErrs : ~(e.stage = "decode" /\ e.ev = i)
    /\ (i = nTaken /\ pc["decode"] = "out") =>
          /\ MatchesWire(cur["decode"], source[i])
          /\ TimesForwarded(i) = 0
    /\ (i < nTaken \/ pc["decode"] = "recv") => TimesForwarded(i) = 1
    /\ TimesForwarded(i) <= 1
    /\ (i = nTaken /\ pc["decode"] = "exit" /\ TimesForwarded(i) = 0) => done

\* the decoder has sent the Raw Event of a valid buffer whose two tags are
\* not in increasing order on the wire
C10_Witness ==
  \E i \in 1..nTaken :
    /\ source[i] = BufEven
    /\ TimesForwarded(i) = 1

(* ------------------------------------------------------------------ *)
(* C11                                                                 *)
(* ------------------------------------------------------------------ *)

\* the errors stage s has sent for the i-th buffer
SentFor(s, i) == {e \in sentErrs : e.stage = s /\ e.ev = i}

\* the decoder has finished the iteration for the i-th buffer
DecodedPast(i) == i < nTaken \/ pc["decode"] \in {"recv", "exit"}

\* C11: a buffer whose header does not decode gives no Raw Event and one
\* error, the header error, on the decoder's error channel; no argument of
\* it is decoded (no argument error, no tag, no value); after the error
\* is sent the decoder is back at its range over the source.
C11_BadHeaderOneError ==
  \A i \in 1..nTaken : ~source[i].hdrOk =>
    /\ TimesForwarded(i) = 0
    /\ \A e \in SentFor("decode", i) : e.kind = "header"
    /\ Cardinality(SentFor("decode", i)) <= 1
    /\ DecodedPast(i) => Cardinality(SentFor("decode", i)) = 1
    /\ i = nTaken =>
         /\ cur["decode"] = None
         /\ Len(pendErr["decode"]) <= 1
         /\ pc["decode"] \in {"errc", "recv", "exit"}
         /\ pc["decode"] = "exit" => InputEnded("decode")

\* the decoder took a buffer after one whose header did not decode and for
\* which the error has been handled
C11_Witness ==
  /\ nTaken = 2
  /\ ~source[1].hdrOk
  /\ \E e \in handled : e.stage = "decode" /\ e.ev = 1 /\ e.kind = "header"

(* ------------------------------------------------------------------ *)
(* C12                                                                 *)
(* ------------------------------------------------------------------ *)

\* the header of buf decodes and one of its declared arguments does not
HasCorruptArg(buf) ==
  buf.hdrOk /\ \E k \in 1..buf.Argnum : readArgFromBuff(buf.args, k).err

\* C12: the Raw Event built from a buffer with a corrupt argument has an
\* ordered tag sequence shorter than the declared argument count: the
\* corrupt slot is absent from it.
C12_CorruptSlotAbsent ==
  (pc["decode"] = "out" /\ HasCorruptArg(source[nTaken])) =>
     Len(cur["decode"].ArgsTags) < source[nTaken].Argnum

(* ------------------------------------------------------------------ *)
(* C13                                                                 *)
(* ------------------------------------------------------------------ *)

\* the Raw Event the decoder makes of the i-th buffer
RawOf(i) == decodeBody(i, source[i]).out

\* how many times stage s has called the collaborator name for event i
CallsOf(s, i, name) ==
  Cardinality({k \in 1..Len(calls[s]) : calls[s][k] = <<i, name>>})

\* how many times stage s has sent event i on its out channel
TimesSent(s, i) ==
  Cardinality({k \in 1..Len(forwarded[s]) : forwarded[s][k] = i})

\* stage s has finished the iteration for the k-th event it received from
\* the stage up
IterationOver(s, up, k) == k < Len(forwarded[up]) \/ pc[s] \in {"recv", "exit"}

\* C13: for every Raw Event processRawEvent has received: the predicate is
\* asked once; when it says no, the hook is not called, no error is sent and
\* the event is not forwarded; when it says yes, the hook is called exactly
\* once; when the hook fails, one error is sent (none other) and the event
\* is never forwarded; when the hook succeeds, no error is sent and the
\* event is forwarded once (it is still to be sent only while the stage is
\* at its select, or when the stage observed done there).
C13_ProcessPolicy ==
  \A k \in 1..Len(forwarded["decode"]) :
    LET i == forwarded["decode"][k]
        over == IterationOver("process", "decode", k)
    IN /\ CallsOf("process", i, "shouldProcessEvent") = 1
       /\ ~shouldProcessEvent(RawOf(i)) =>
            /\ CallsOf("process", i, "processEvent") = 0
            /\ SentFor("process", i) = {}
            /\ TimesSent("process", i) = 0
            /\ over
       /\ shouldProcessEvent(RawOf(i)) =>
            /\ CallsOf("process", i, "processEvent") = 1
            /\ processEventFails(RawOf(i)) =>
                 /\ TimesSent("process", i) = 0
                 /\ \A e \in SentFor("process", i) : e.kind = "processEvent"
                 /\ Cardinality(SentFor("process", i)) = IF over THEN 1 ELSE 0
                 /\ ~over => pc["process"] = "errc"
            /\ ~processEventFails(RawOf(i)) =>
                 /\ SentFor("process", i) = {}
                 /\ TimesSent("process", i) <= 1
                 /\ ~over => (pc["process"] = "out" /\ cur["process"].id = i)
                 /\ (over /\ TimesSent("process", i) = 0) =>
                      (done /\ pc["process"] = "exit" /\ k = Len(forwarded["decode"]))

\* processRawEvent has dealt with all three kinds: one event dropped by the
\* predicate, one whose hook failed and whose error was handled, and one
\* forwarded
C13_Witness ==
  /\ \E i \in 1..nTaken :
       /\ source[i] = BufProcessErr
       /\ \E e \in handled : e.stage = "process" /\ e.ev = i
  /\ \E i \in 1..nTaken : source[i] = BufNoProcess /\ TimesSent("decode", i) = 1
                          /\ IterationOver("process", "decode", nTaken)
                          /\ TimesSent("process", 3 - i) = 0

(* ------------------------------------------------------------------ *)
(* C14                                                                 *)
(* ------------------------------------------------------------------ *)

\* what prepareEventForPrint does after the formatting hook
AfterHook == {"DecParamName", "getStackTrace", "newEvent"}

\* C14: for every Raw Event prepareEventForPrint has received: when the
\* print predicate says no, the formatting hook is not called, no name is
\* looked up, no stack trace is looked up, no error is sent and no Final
\* Event is made or sent; when the formatting hook fails, it was called once,
\* one error (the hook's, none other) is sent, and no name lookup, stack
\* lookup or newEvent call follows: no Final Event is made or sent.
C14_PreparePolicy ==
  \A k \in 1..Len(forwarded["process"]) :
    LET i == forwarded["process"][k]
        over == IterationOver("prepare", "process", k)
    IN /\ CallsOf("prepare", i, "shouldPrintEvent") = 1
       /\ ~shouldPrintEvent(RawOf(i)) =>
            /\ CallsOf("prepare", i, "prepareArgsForPrint") = 0
            /\ \A c \in AfterHook : CallsOf("prepare", i, c) = 0
            /\ SentFor("prepare", i) = {}
            /\ TimesSent("prepare", i) = 0
            /\ over
       /\ (shouldPrintEvent(RawOf(i)) /\ prepareArgsForPrintFails(RawOf(i))) =>
            /\ CallsOf("prepare", i, "prepareArgsForPrint") = 1
            /\ \A c \in AfterHook : CallsOf("prepare", i, c) = 0
            /\ \A e \in SentFor("prepare", i) : e.kind = "prepareArgsForPrint"
            /\ Cardinality(SentFor("prepare", i)) = IF over THEN 1 ELSE 0
            /\ ~over => (pc["prepare"] = "errc" /\ cur["prepare"] = None)
            /\ TimesSent("prepare", i) = 0

\* prepareEventForPrint has dropped one event on the predicate and one on
\* the failing hook, whose error was handled
C14_Witness ==
  /\ \E i \in 1..nTaken :
       /\ source[i] = BufPrepareErr
       /\ \E e \in handled : e.stage = "prepare" /\ e.ev = i
  /\ \E i \in 1..nTaken :
       /\ source[i] = BufNoPrint
       /\ TimesSent("process", i) = 1
       /\ IterationOver("prepare", "process", Len(forwarded["process"]))
(* ------------------------------------------------------------------ *)
(* C15                                                                 *)
(* ------------------------------------------------------------------ *)

\* the Final Events there are: the one prepareEventForPrint holds at its
\* select, those in printEventChan, the one printEvent holds, those rendered
FinalEvents ==
  (IF pc["prepare"] = "out" THEN {cur["prepare"]} ELSE {})
    \cup {printEventChan[k] : k \in 1..Len(printEventChan)}
    \cup (IF cur["print"] # None THEN {cur["print"]} ELSE {})
    \cup {rendered[k] : k \in 1..Len(rendered)}

\* the name the table of the event's EventID % 2 has for tag, "" when none
NameOf(eventID, tag) ==
  LET table == DecParamName[eventID % 2]
  IN IF tag \in DOMAIN table THEN table[tag] ELSE ""

\* buf decodes fully, passes every predicate and hook, all its tags have a
\* name and its stack id is not in the stack-trace map
CleanStackMiss(buf) ==
  /\ FullyValid(buf)
  /\ buf.policy = "pass"
  /\ \A k \in 1..buf.Argnum : NameOf(buf.EventID, buf.args[k].tag) # ""
  /\ buf.StackID \notin DOMAIN stackTracesMap

\* stage s holds event i at its select on out
HeldAt(s, i) == pc[s] = "out" /\ cur[s].id = i

\* C15: every Final Event has Ctx.Argnum names and Ctx.Argnum values; at
\* each position the value is the formatted value the Raw Event maps the
\* tag at that position of ArgsTags to, and the name is the one resolved
\* for that tag; for a fully decoded buffer that is the wire order of values
\* and names.  A buffer with N valid arguments, resolvable names and a stack
\* id the map does not hold gives no error and one Final Event (unless the
\* run is cancelled before), with N non-empty names and the N values in
\* wire order and an empty stack trace.
C15_FinalEventShape ==
  /\ \A ev \in FinalEvents :
       LET raw == RawOf(ev.id)
           buf == source[ev.id]
       IN /\ ev.Ctx = raw.Ctx
          /\ Len(ev.Args) = ev.Ctx.Argnum
          /\ Len(ev.ArgsNames) = ev.Ctx.Argnum
          /\ \A k \in 1..ev.Ctx.Argnum :
               /\ ev.Args[k] = MapGet(prepareArgsForPrint(raw.RawArgs), raw.ArgsTags[k])
               /\ ev.ArgsNames[k] = NameOf(ev.Ctx.EventID, raw.ArgsTags[k])
          /\ FullyValid(buf) =>
               \A k \in 1..buf.Argnum :
                 /\ ev.Args[k].raw = buf.args[k].val.raw
                 /\ ev.Args[k].shown
                 /\ ev.ArgsNames[k] = NameOf(buf.EventID, buf.args[k].tag)
  /\ \A i \in 1..nTaken : CleanStackMiss(source[i]) =>
       /\ \A s \in Stages : SentFor(s, i) = {}
       /\ TimesSent("prepare", i) <= 1
       /\ TimesSent("prepare", i) = 0 => (done \/ \E s \in OutStages : HeldAt(s, i))
       /\ \A ev \in FinalEvents : ev.id = i =>
            /\ Len(ev.ArgsNames) = source[i].Argnum
            /\ \A k \in 1..source[i].Argnum : ev.ArgsNames[k] # ""
            /\ ev.StackTrace = <<>>

\* the sink has rendered the Final Event of the two-argument buffer with
\* event id 7 and a stack id the map does not hold, and that of a buffer
\* whose tags are not in increasing order on the wire
C15_Witness ==
  /\ \E k \in 1..Len(rendered) :
       /\ source[rendered[k].id] = BufValid
       /\ rendered[k].ArgsNames = <<"odd_fd", "odd_buf">>
       /\ rendered[k].StackTrace = <<>>
  /\ \E k \in 1..Len(rendered) : source[rendered[k].id] = BufEven
(* ------------------------------------------------------------------ *)
(* C16                                                                 *)
(* ------------------------------------------------------------------ *)

\* the addresses before the first zero address
RECURSIVE BeforeZero(_)
BeforeZero(words) ==
  IF words = <<>> \/ Head(words) = 0 THEN <<>>
  ELSE <<Head(words)>> \o BeforeZero(Tail(words))

\* str from position from on, cut at its commas
RECURSIVE Pieces(_, _)
Pieces(str, from) ==
  LET commas == {p \in from..Len(str) : str[p] = ","}
  IN IF commas = {} THEN <<SubSeq(str, from, Len(str))>>
     ELSE LET p == CHOOSE c \in commas : \A d \in commas : c <= d
          IN <<SubSeq(str, from, p - 1)>> \o Pieces(str, p + 1)

\* the number an upper-case hexadecimal numeral without leading zero
\* denotes, -1 for anything else
RECURSIVE HexNumber(_, _)
HexNumber(digits, acc) ==
  IF digits = <<>> THEN acc
  ELSE IF \E d \in 0..15 : HexDigits[d + 1] = Head(digits)
  THEN HexNumber(Tail(digits),
                 16 * acc + (CHOOSE d \in 0..15 : HexDigits[d + 1] = Head(digits)))
  ELSE -1

\* the address piece denotes when it is 0x and such a numeral, else -1
AddressOf(piece) ==
  IF Len(piece) >= 3 /\ piece[1] = "0" /\ piece[2] = "x" /\ piece[3] # "0"
  THEN HexNumber(SubSeq(piece, 3, Len(piece)), 0)
  ELSE -1

\* str is the addresses, each as 0x and upper-case hexadecimal, joined by
\* commas with no comma at the end; no address gives the empty string
Renders(str, addrs) ==
  IF addrs = <<>> THEN str = <<>>
  ELSE /\ str # <<>>
       /\ LET ps == Pieces(str, 1)
          IN /\ Len(ps) = Len(addrs)
             /\ \A k \in 1..Len(ps) : AddressOf(ps[k]) = addrs[k]

\* prepareEventForPrint has called getStackTrace for the event of buffer i
\* with a stack id the map holds
Resolved(i) ==
  /\ CallsOf("prepare", i, "getStackTrace") > 0
  /\ haveStackMap
  /\ source[i].StackID \in DOMAIN stackTracesMap

\* C16: whenever the resolver has looked the frames of a stack up, it
\* returns the addresses before the first zero address, all maxStackDepth of
\* them when none is zero, each as 0x and upper-case hexadecimal, joined by
\* commas with no comma at the end, whatever follows the zero address;
\* frames 0x10, 0x20, 0x00, 0x30 give "0x10,0x20" and frames that start
\* with a zero address give the empty string.
C16_StackTraceRendered ==
  \A i \in 1..nTaken : Resolved(i) =>
    LET r == getStackTrace(source[i].StackID)
        frames == stackTracesMap[source[i].StackID]
    IN /\ ~r.panic
       /\ Renders(r.StackTrace, BeforeZero(frames))
       /\ SubSeq(frames, 1, 4) = <<16, 32, 0, 48>> =>
            r.StackTrace = <<"0", "x", "1", "0", ",", "0", "x", "2", "0">>
       /\ frames[1] = 0 => r.StackTrace = <<>>

\* the same on a build whose int is 64 bits wide
StackTraceRenderedOn64 == IntSize = 64 => C16_StackTraceRendered

\* on such a build the sink has rendered events with each kind of stack:
\* a zero address in the middle, at the start, and nowhere
StackTraceRenderedOn64_Witness ==
  /\ IntSize = 64
  /\ \E k \in 1..Len(rendered) : rendered[k].StackTrace # <<>>
  /\ \E k \in 1..Len(rendered) :
       rendered[k].Ctx.StackID = 3 /\ Resolved(rendered[k].id)
(* ------------------------------------------------------------------ *)
(* C17                                                                 *)
(* ------------------------------------------------------------------ *)

\* the lookup of the stack of buf fails: no map, or no entry for the id
StackMiss(buf) == ~haveStackMap \/ buf.StackID \notin DOMAIN stackTracesMap

\* the tags of rawEvent.ArgsTags the name table has no entry for
Unresolved(rawEvent) ==
  {k \in 1..Len(rawEvent.ArgsTags) :
     NameOf(rawEvent.Ctx.EventID, rawEvent.ArgsTags[k]) = ""}

\* C17: when prepareEventForPrint has asked for the stack trace of an event
\* and the map is missing or has no entry for its stack id, the resolver
\* returns the empty string and no error (and does not panic); the stage
\* sends no error for the lookup: its errors for the event are those of
\* unresolved tags and of newEvent, no more; and, newEvent succeeding, the
\* event is made and sent as a Final Event with an empty stack trace (it is
\* not sent only while the stage still holds it, or when the stage
\* observed done at its select).
C17_StackMissNoError ==
  \A i \in 1..nTaken :
    (CallsOf("prepare", i, "getStackTrace") > 0 /\ StackMiss(source[i])) =>
      /\ getStackTrace(source[i].StackID) =
           [StackTrace |-> <<>>, err |-> FALSE, panic |-> FALSE]
      /\ \A e \in SentFor("prepare", i) : e.kind \in {"invalid arg tag", "newEvent"}
      /\ Cardinality(SentFor("prepare", i)) <=
           Cardinality(Unresolved(RawOf(i)))
             + (IF newEventFails(RawOf(i).Ctx) THEN 1 ELSE 0)
      /\ CallsOf("prepare", i, "newEvent") = 1
      /\ ~newEventFails(RawOf(i).Ctx) =>
           /\ TimesSent("prepare", i) <= 1
           /\ TimesSent("prepare", i) = 0 =>
                \/ /\ pc["prepare"] \in {"errc", "out"}
                   /\ cur["prepare"] # None
                   /\ cur["prepare"].id = i
                \/ done /\ pc["prepare"] = "exit"
           /\ \A ev \in FinalEvents : ev.id = i => ev.StackTrace = <<>>

\* without the stack_traces map, the sink has rendered, with an empty
\* stack trace, an event whose stack id the map would hold and one whose
\* stack id it would not
C17_Witness ==
  /\ ~haveStackMap
  /\ \E k \in 1..Len(rendered) :
       rendered[k].Ctx.StackID \in DOMAIN stackTracesMap /\ rendered[k].StackTrace = <<>>
  /\ \E k \in 1..Len(rendered) :
       rendered[k].Ctx.StackID \notin DOMAIN stackTracesMap /\ rendered[k].StackTrace = <<>>
(* ------------------------------------------------------------------ *)
(* C18                                                                 *)
(* ------------------------------------------------------------------ *)

\* the ids of the Final Events printEvent has received, in order: those
\* sent by prepareEventForPrint but for the ones still in printEventChan
ReceivedIds ==
  SubSeq(forwarded["prepare"], 1, Len(forwarded["prepare"]) - Len(printEventChan))

\* the id of the Final Event printEvent holds, if any
HeldBySink == IF cur["print"] # None THEN <<cur["print"].id>> ELSE <<>>

\* C18: the events rendered, followed by the one printEvent holds, are
\* exactly the events it has received, in order: each is rendered once and
\* none is left out; the counter is the number of events rendered, or one
\* more exactly when printEvent is between Increment and Print; each event
\* is rendered as it was received; printEvent never sends on its errc.
C18_SinkAccounting ==
  /\ RenderedIds \o HeldBySink = ReceivedIds
  /\ eventCounter = Len(rendered) + (IF pc["print"] = "print" THEN 1 ELSE 0)
  /\ (cur["print"] # None) = (pc["print"] \in {"count", "print"})
  /\ \A k \in 1..Len(rendered) : rendered[k] = FinalOf(rendered[k].id, source[rendered[k].id])
  /\ errc["print"] = <<>>
  /\ pendErr["print"] = <<>>
  /\ \A e \in sentErrs : e.stage # "print"

\* printEvent has rendered one event and has counted, not yet rendered, a
\* second one
C18_Witness ==
  /\ Len(rendered) = 1
  /\ pc["print"] = "print"
  /\ eventCounter = 2
(* ------------------------------------------------------------------ *)
(* C19                                                                 *)
(* ------------------------------------------------------------------ *)

\* the "invalid arg tag" errors prepareEventForPrint has sent for event i
TagErrors(i) == {e \in SentFor("prepare", i) : e.kind = "invalid arg tag"}

\* prepareEventForPrint holds the Final Event of buffer i: it is sending
\* the errors of the iteration, or is at its select on out
HeldByPrepare(i) ==
  /\ pc["prepare"] \in {"errc", "out"}
  /\ cur["prepare"] # None
  /\ cur["prepare"].id = i

\* C19: for every event prepareEventForPrint has received and taken past
\* the formatting hook, some of whose tags have no name in the table of
\* EventID % 2: every tag is looked up; the errors sent for it are "invalid
\* arg tag" errors, at most one per such tag, and exactly one per such tag
\* once they are all sent; one Final Event is made, sent at most once, and
\* missing downstream only while the stage still holds it or when the stage
\* observed done at its select; in it the name is empty at the positions of
\* those tags and is the resolved name at every other position.
C19_UnresolvedNameKept ==
  \A j \in 1..Len(forwarded["process"]) :
    LET i == forwarded["process"][j]
        raw == RawOf(i)
    IN (/\ shouldPrintEvent(raw)
        /\ ~prepareArgsForPrintFails(raw)
        /\ ~newEventFails(raw.Ctx)
        /\ Unresolved(raw) # {}) =>
         /\ CallsOf("prepare", i, "DecParamName") = Len(raw.ArgsTags)
         /\ CallsOf("prepare", i, "newEvent") = 1
         /\ SentFor("prepare", i) = TagErrors(i)
         /\ Cardinality(TagErrors(i)) <= Cardinality(Unresolved(raw))
         /\ Cardinality(TagErrors(i)) + (IF HeldByPrepare(i) THEN Len(pendErr["prepare"]) ELSE 0)
              = Cardinality(Unresolved(raw))
         /\ TimesSent("prepare", i) <= 1
         /\ TimesSent("prepare", i) = 0 =>
              (HeldByPrepare(i) \/ (done /\ pc["prepare"] = "exit"))
         /\ \A ev \in FinalEvents \cup (IF HeldByPrepare(i) THEN {cur["prepare"]} ELSE {}) :
              ev.id = i =>
                \A k \in 1..Len(raw.ArgsTags) :
                  /\ k \in Unresolved(raw) => ev.ArgsNames[k] = ""
                  /\ k \notin Unresolved(raw) =>
                       /\ ev.ArgsNames[k] # ""
                       /\ ev.ArgsNames[k] = DecParamName[raw.Ctx.EventID % 2][raw.ArgsTags[k]]

\* the sink has rendered the event of a buffer whose first tag has no name
\* and whose second has one, and the error for the first tag was handled
C19_Witness ==
  \E k \in 1..Len(rendered) :
    /\ source[rendered[k].id] = BufBadName
    /\ rendered[k].ArgsNames = <<"", "odd_buf">>
    /\ \E e \in handled : e.stage = "prepare" /\ e.ev = rendered[k].id
                          /\ e.kind = "invalid arg tag"
(* ------------------------------------------------------------------ *)
(* C20                                                                 *)
(* ------------------------------------------------------------------ *)

\* ids is a strictly increasing sequence of positions of buffers taken
\* from the source: a subsequence of them, nothing twice, nothing made up
TakenOnce(ids) ==
  /\ \A k \in 1..Len(ids) : ids[k] \in 1..nTaken
  /\ \A k \in 1..(Len(ids) - 1) : ids[k] < ids[k + 1]

Ids(seq) == {seq[k] : k \in 1..Len(seq)}

QueuedIds == [k \in 1..Len(printEventChan) |-> printEventChan[k].id]

\* C20: the events rendered are a subsequence of the buffers taken from
\* the source, and so are the events each stage has sent; what a stage has
\* sent is among what it has received; printEventChan holds exactly the
\* events sent by prepareEventForPrint and not yet taken by printEvent; an
\* event a stage holds is one it has received and not sent; every event
\* rendered is the Final Event of its buffer; and rendered <= sent by
\* prepareEventForPrint <= sent by processRawEvent <= sent by
\* decodeRawEvent <= buffers taken.
C20_EventConservation ==
  /\ TakenOnce(RenderedIds)
  /\ \A s \in OutStages : TakenOnce(forwarded[s])
  /\ Ids(RenderedIds) \subseteq Ids(forwarded["prepare"])
  /\ Ids(forwarded["prepare"]) \subseteq Ids(forwarded["process"])
  /\ Ids(forwarded["process"]) \subseteq Ids(forwarded["decode"])
  /\ RenderedIds \o HeldBySink \o QueuedIds = forwarded["prepare"]
  /\ \A s \in OutStages : cur[s] # None => cur[s].id \notin Ids(forwarded[s])
  /\ cur["decode"] # None => cur["decode"].id = nTaken
  /\ cur["process"] # None => cur["process"].id \in Ids(forwarded["decode"])
  /\ cur["prepare"] # None => cur["prepare"].id \in Ids(forwarded["process"])
  /\ \A k \in 1..Len(rendered) :
       rendered[k] = FinalOf(rendered[k].id, source[rendered[k].id])
  /\ Len(rendered) <= Len(forwarded["prepare"])
  /\ Len(forwarded["prepare"]) <= Len(forwarded["process"])
  /\ Len(forwarded["process"]) <= Len(forwarded["decode"])
  /\ Len(forwarded["decode"]) <= nTaken

\* of two buffers taken the decoder dropped the first; the second went
\* through every stage and was rendered
C20_Witness ==
  /\ nTaken = 2
  /\ forwarded["decode"] = <<2>>
  /\ forwarded["process"] = <<2>>
  /\ forwarded["prepare"] = <<2>>
  /\ RenderedIds = <<2>>

====
